---- MODULE Spec2Model ----
(***************************************************************************)
(* Koopa IR: the Program container of global values and functions and the  *)
(* ValueUses iterator (src/ir/entities.rs), the use lists and the value    *)
(* classification of the Rc-based core (src/ir/core.rs), the type factory  *)
(* (src/ir/types.rs), the FunctionData / BasicBlockData / ValueData        *)
(* constructors, and the foreign calls of the interpreter                  *)
(* (examples/interpreter/src/ext_funcs.rs).                                *)
(***************************************************************************)
EXTENDS Integers, Sequences, FiniteSets, TLC

\* ------------------------------------------------------------------ bounds
\* Largest value id the id allocator hands out in a checked run.
MaxValueId == 3
\* Longest element vector of an Aggregate given to Program::new_value.
MaxArgs == 1
\* Number of Rc<Value>s of the core that are alive in a checked run.
NumValues == 2
\* Number of Use boxes that can be alive at once.
MaxUses == 3
\* Number of Rc<TypeData> allocations of a checked run.
MaxTypes == 3
\* Largest array length and longest parameter list of a TypeData given to get_type.
MaxArrayLen == 2
MaxTypeArgs == 1
\* Longest parameter list of a function or basic block given to a constructor.
MaxParams == 2

\* Largest Value handle and longest argument vector (Aggregate elems,
\* Branch/Jump/Call args) in the kinds given to value_uses, and the number of
\* next() calls made on one iterator.
MaxOperand == 2
MaxIterArgs == 2
MaxNextCalls == 7

\* Longest argument vector given to ExternFuncs::call.
MaxCallArgs == 30

\* Largest function id the id allocator hands out in a checked run.
MaxFuncId == 2

\* Option::None of an Option<Value> / Option<ValueRc>; handles are 1, 2, ...
None == 0

VARIABLES
  values,         \* Program.values: Value -> ValueData ([kind, used_by])
  next_value_id,  \* the id allocator's value counter (next id to hand out)
  returned,       \* the Value handles new_value has returned to the caller
  last,           \* the last call on the Program: operation, argument, outcome
  panicked,       \* TRUE once some call on the Program has panicked
  use_boxes,      \* core: the live Use boxes, Use -> [value, user]
  uses,           \* core: ValueInner.uses of each Value, a list of Use boxes
  last_use_call,  \* core: the last call on a Use or a ValueInner
  undefined,      \* core: TRUE once remove_use was given a Use not in the list
  types,          \* TypeFactory.types: TypeData -> Type (an Rc pointer)
  heap,           \* the Rc<TypeData> allocations: pointer -> TypeData
  obtained,       \* the get_type calls so far: [data, handle] as given and returned
  last_type,      \* the last get_type call
  built,          \* the last FunctionData / BasicBlockData / ValueData call
  funcs,          \* Program.funcs: Function -> FunctionData
  next_func_id,   \* the id allocator's function counter
  returned_funcs, \* the Function handles new_func has returned to the caller
  iter,           \* a ValueUses iterator: [kind, index], once value_uses made it
  yielded,        \* what the calls of next() on it have returned, in order
  core_value,     \* core: a Value made by Value::new and its classification
  ext_call        \* interpreter: the last ExternFuncs::call and its outcome

progVars == <<values, next_value_id, returned, last, panicked>>
useVars == <<use_boxes, uses, last_use_call, undefined>>
typeVars == <<types, heap, obtained, last_type>>
entityVars == <<built>>
funcVars == <<funcs, next_func_id, returned_funcs>>
iterVars == <<iter, yielded>>
kindVars == <<core_value>>
extVars == <<ext_call>>
\* The variables outside the Program, the use lists, the factory, the entities.
restVars == <<iterVars, kindVars, extVars>>
vars == <<progVars, funcVars, useVars, typeVars, entityVars, restVars>>

\* ------------------------------------------------------- ValueKind, uses
\* Sequences over S of length at most n.
SeqsUpTo(S, n) == UNION {[1..k -> S] : k \in 0..n}

\* The ValueKinds whose operands are drawn from the handles H, with optional
\* operands from H \cup {None}.
KindsOver(H) ==
  {[tag |-> t] : t \in {"Integer", "ZeroInit", "Undef", "FuncArgRef", "BlockArgRef", "Alloc"}}
  \cup {[tag |-> "Aggregate", elems |-> e] : e \in SeqsUpTo(H, MaxIterArgs)}
  \cup {[tag |-> "GlobalAlloc", init |-> i] : i \in H}
  \cup {[tag |-> "Load", src |-> s] : s \in H}
  \cup {[tag |-> "Store", value |-> v, dest |-> d] : v \in H, d \in H}
  \cup {[tag |-> "GetPtr", src |-> s, index |-> i] : s \in H, i \in H}
  \cup {[tag |-> "GetElemPtr", src |-> s, index |-> i] : s \in H, i \in H}
  \cup {[tag |-> "Binary", lhs |-> l, rhs |-> r] : l \in H, r \in H}
  \cup {[tag |-> "Branch", cond |-> c, true_args |-> t, false_args |-> f] :
          c \in H, t \in SeqsUpTo(H, MaxIterArgs), f \in SeqsUpTo(H, MaxIterArgs)}
  \cup {[tag |-> "Jump", args |-> a] : a \in SeqsUpTo(H, MaxIterArgs)}
  \cup {[tag |-> "Call", args |-> a] : a \in SeqsUpTo(H, MaxIterArgs)}
  \cup {[tag |-> "Return", value |-> v] : v \in H \cup {None}}

\* The kinds given to Program::new_value in the checked runs: one kind for each
\* shape of operand list (none, one field, two fields, a vector, an option).
GlobalKinds(H) ==
  {[tag |-> "Integer"]}
  \cup {[tag |-> "GlobalAlloc", init |-> i] : i \in H}
  \cup {[tag |-> "Binary", lhs |-> l, rhs |-> r] : l \in H, r \in H}
  \cup {[tag |-> "Aggregate", elems |-> e] : e \in SeqsUpTo(H, MaxArgs)}
  \cup {[tag |-> "Return", value |-> v] : v \in H \cup {None}}

\* vec_use!: the element at index cur of a vector, if any.
vec_use(vec, cur) == IF cur < Len(vec) THEN vec[cur + 1] ELSE None

\* field_use! with one field.
field_use1(a, cur) == IF cur = 0 THEN a ELSE None

\* field_use! with two fields.
field_use2(a, b, cur) == IF cur = 0 THEN a ELSE IF cur = 1 THEN b ELSE None

\* The Branch arm yielding the false arguments before the true arguments.
branch_use_false_first(v, cur) ==
  LET flen == Len(v.false_args) IN
  IF cur = 0 THEN v.cond
  ELSE IF cur >= 1 /\ cur <= flen THEN v.false_args[cur]
  ELSE IF cur > flen /\ cur <= flen + Len(v.true_args) THEN v.true_args[cur - flen]
  ELSE None

\* The Branch arm of ValueUses::next.
branch_use(v, cur) ==
  LET tlen == Len(v.true_args) IN
  IF cur = 0 THEN v.cond
  ELSE IF cur >= 1 /\ cur <= tlen THEN v.true_args[cur]
  ELSE IF cur > tlen /\ cur <= tlen + Len(v.false_args) THEN v.false_args[cur - tlen]
  ELSE None

\* ValueUses::next with self.index = cur: Some(value) or None.
ValueUsesNext(kind, cur) ==
  CASE kind.tag = "Aggregate" -> vec_use(kind.elems, cur)
    [] kind.tag = "GlobalAlloc" -> field_use1(kind.init, cur)
    [] kind.tag = "Load" -> field_use1(kind.src, cur)
    [] kind.tag = "Store" -> field_use2(kind.value, kind.dest, cur)
    [] kind.tag = "GetPtr" -> field_use2(kind.src, kind.index, cur)
    [] kind.tag = "GetElemPtr" -> field_use2(kind.src, kind.index, cur)
    [] kind.tag = "Binary" -> field_use2(kind.lhs, kind.rhs, cur)
    [] kind.tag = "Branch" -> branch_use(kind, cur)
    [] kind.tag = "Jump" -> vec_use(kind.args, cur)
    [] kind.tag = "Call" -> vec_use(kind.args, cur)
    [] kind.tag = "Return" -> (IF cur = 0 THEN kind.value ELSE None)
    [] OTHER -> None

\* What a `for v in kind.value_uses()` loop visits: the items up to the first None.
RECURSIVE ValueUsesFrom(_, _)
ValueUsesFrom(kind, cur) ==
  LET item == ValueUsesNext(kind, cur) IN
  IF item = None THEN <<>> ELSE <<item>> \o ValueUsesFrom(kind, cur + 1)

value_uses(kind) == ValueUsesFrom(kind, 0)

\* ValueKind::value_uses as the iterator it returns, and ValueUses::next on
\* an iterator: the index advances on every call, the item is Some or None.
ValueUses_new(kind) == [kind |-> kind, index |-> 0]

ValueUses_next(it) ==
  [iter |-> [it EXCEPT !.index = @ + 1], item |-> ValueUsesNext(it.kind, it.index)]

\* The operand slots of a kind as a set.
Operands(kind) == {value_uses(kind)[i] : i \in 1..Len(value_uses(kind))}

\* ------------------------------------------------------------- names
\* Strings, as sequences of characters; Option<String>.
Names == {<<>>, <<"%">>, <<"@">>, <<"x">>, <<"%", "x">>, <<"@", "f">>, <<"x", "%">>}
SomeName(n) == [some |-> TRUE, s |-> n]
NoName == [some |-> FALSE, s |-> <<>>]
OptionNames == {NoName} \cup {SomeName(n) : n \in Names}

\* name.len() > 1 && (name.starts_with('%') || name.starts_with('@'))
ValidName(n) == Len(n) > 1 /\ (n[1] = "%" \/ n[1] = "@")

\* ------------------------------------------------------------- Program
\* ValueData::new: a fresh ValueData has no name and no users.
ValueData_new(kind) == [kind |-> kind, name |-> NoName, used_by |-> {}]

\* ValueData::set_name: the name is stored as given.
ValueData_set_name(data, name) == [data EXCEPT !.name = name]

\* HashMap::insert.
MapInsert(m, k, d) == [x \in DOMAIN m \cup {k} |-> IF x = k THEN d ELSE m[x]]

\* HashMap::remove (the map without the key).
MapRemove(m, k) == [x \in DOMAIN m \ {k} |-> m[x]]

\* The loop of new_value passing over an operand that is missing from the map.
RECURSIVE InsertUsesLenient(_, _, _, _)
InsertUsesLenient(vals, ops, i, value) ==
  IF i > Len(ops) THEN [values |-> vals, ok |-> TRUE]
  ELSE IF ops[i] \notin DOMAIN vals THEN InsertUsesLenient(vals, ops, i + 1, value)
  ELSE InsertUsesLenient([vals EXCEPT ![ops[i]].used_by = @ \cup {value}], ops, i + 1, value)

\* The loop of new_value: data_mut!(self, v).used_by.insert(value) for each
\* operand in order; data_mut! panics at the first operand missing from the map.
RECURSIVE InsertUses(_, _, _, _)
InsertUses(vals, ops, i, value) ==
  IF i > Len(ops) THEN [values |-> vals, ok |-> TRUE]
  ELSE IF ops[i] \notin DOMAIN vals THEN [values |-> vals, ok |-> FALSE]
  ELSE InsertUses([vals EXCEPT ![ops[i]].used_by = @ \cup {value}], ops, i + 1, value)

\* remove_value without the loop over the operands.
RemoveUsesSkipped(vals, ops, i, value) == [values |-> vals, ok |-> TRUE]

\* remove_value whose loop stops after the first operand.
RemoveUsesFirstOnly(vals, ops, i, value) ==
  IF i > Len(ops) \/ ops[i] \notin DOMAIN vals
  THEN [values |-> vals, ok |-> i > Len(ops)]
  ELSE [values |-> [vals EXCEPT ![ops[i]].used_by = @ \ {value}], ok |-> TRUE]

\* The loop of remove_value: data_mut!(self, v).used_by.remove(&value).
RECURSIVE RemoveUses(_, _, _, _)
RemoveUses(vals, ops, i, value) ==
  IF i > Len(ops) THEN [values |-> vals, ok |-> TRUE]
  ELSE IF ops[i] \notin DOMAIN vals THEN [values |-> vals, ok |-> FALSE]
  ELSE RemoveUses([vals EXCEPT ![ops[i]].used_by = @ \ {value}], ops, i + 1, value)

\* new_value that takes the lowest id with no entry in the map instead of the
\* id the allocator gave.
new_value_reusing(vals, value, data) ==
  LET free == CHOOSE x \in 1..value :
                x \notin DOMAIN vals /\ \A y \in 1..(x - 1) : y \in DOMAIN vals
      r == InsertUses(vals, value_uses(data.kind), 1, free) IN
  IF r.ok
  THEN [values |-> MapInsert(r.values, free, data), ok |-> TRUE, ret |-> free]
  ELSE [values |-> r.values, ok |-> FALSE, ret |-> None]

\* Program::new_value with `value` the id just taken from the allocator:
\* the map it leaves, whether it returned (ok) or panicked, and the handle.
new_value(vals, value, data) ==
  LET r == InsertUses(vals, value_uses(data.kind), 1, value) IN
  IF r.ok
  THEN [values |-> MapInsert(r.values, value, data), ok |-> TRUE, ret |-> value]
  ELSE [values |-> r.values, ok |-> FALSE, ret |-> None]

\* Program::remove_value: the entry is taken out of the map first, then the
\* assertion on used_by, then the operands' backlinks.
remove_value(vals, value) ==
  IF value \notin DOMAIN vals
  THEN [values |-> vals, ok |-> FALSE, ret |-> None]
  ELSE LET data == vals[value]
           rest == MapRemove(vals, value) IN
       IF data.used_by # {}
       THEN [values |-> rest, ok |-> FALSE, ret |-> None]
       ELSE LET r == RemoveUses(rest, value_uses(data.kind), 1, value) IN
            [values |-> r.values, ok |-> r.ok, ret |-> IF r.ok THEN data ELSE None]

\* The id allocator (module idman): the first value id it hands out, and the
\* counter after handing out `id`; ids are handed out once, in increasing order.
FirstValueId == 1
next_id(id) == id + 1

\* No kind: the call returned no data.
NoKind == [tag |-> "none"]

NoCall == [op |-> "none", arg |-> None, ok |-> TRUE, kind |-> NoKind]

ProgInit ==
  /\ values = << >>
  /\ next_value_id = FirstValueId
  /\ returned = {}
  /\ last = NoCall
  /\ panicked = FALSE

\* A call of Program::new_value(data); next_value_id() advances the counter
\* before anything else happens.
NewValue(data) ==
  /\ next_value_id <= MaxValueId
  /\ LET r == new_value(values, next_value_id, data) IN
       /\ values' = r.values
       /\ returned' = IF r.ok THEN returned \cup {r.ret} ELSE returned
       /\ last' = [op |-> "new_value", arg |-> next_value_id, ok |-> r.ok, kind |-> data.kind]
       /\ panicked' = (panicked \/ ~r.ok)
  /\ next_value_id' = next_id(next_value_id)
  /\ UNCHANGED <<funcVars, useVars, typeVars, entityVars, restVars>>

\* A call of Program::remove_value(value).
RemoveValue(value) ==
  /\ LET r == remove_value(values, value) IN
       /\ values' = r.values
       /\ last' = [op |-> "remove_value", arg |-> value, ok |-> r.ok,
                  kind |-> IF r.ok THEN r.ret.kind ELSE NoKind]
       /\ panicked' = (panicked \/ ~r.ok)
  /\ UNCHANGED <<next_value_id, returned>>
  /\ UNCHANGED <<funcVars, useVars, typeVars, entityVars, restVars>>

\* Program::new_func with `func` the id just taken from the allocator: the
\* data is linked to the global value map and inserted.
new_func(fs, func, data) ==
  [funcs |-> MapInsert(fs, func, [data EXCEPT !.globals = "values"]), ret |-> func]

\* Option<FunctionData>.
SomeData(d) == [some |-> TRUE, data |-> d]
NoData == [some |-> FALSE]

\* remove_func that answers a missing function with an empty declaration.
remove_func_or_default(fs, func) ==
  [funcs |-> MapRemove(fs, func),
   ret |-> IF func \in DOMAIN fs THEN SomeData(fs[func])
           ELSE SomeData([ty |-> [tag |-> "Function", params |-> <<>>, ret |-> [tag |-> "Unit"]],
                          name |-> <<>>, params |-> <<>>, globals |-> "none"])]

\* Program::remove_func: HashMap::remove, the data if there was an entry.
remove_func(fs, func) ==
  [funcs |-> MapRemove(fs, func),
   ret |-> IF func \in DOMAIN fs THEN SomeData(fs[func]) ELSE NoData]

\* The id allocator's function counter starts like the value counter.
FirstFuncId == 1

FuncInit ==
  /\ funcs = << >>
  /\ next_func_id = FirstFuncId
  /\ returned_funcs = {}

\* A call of Program::new_func(data); next_func_id() advances its counter.
NewFunc(data) ==
  /\ next_func_id <= MaxFuncId
  /\ LET r == new_func(funcs, next_func_id, data) IN
       /\ funcs' = r.funcs
       /\ returned_funcs' = returned_funcs \cup {r.ret}
       /\ last' = [op |-> "new_func", arg |-> next_func_id, ok |-> TRUE, kind |-> NoKind]
  /\ next_func_id' = next_id(next_func_id)
  /\ UNCHANGED <<values, next_value_id, returned, panicked>>
  /\ UNCHANGED <<useVars, typeVars, entityVars, restVars>>

\* A call of Program::remove_func(func); last.kind tells whether it returned
\* Some(data) or None.
RemoveFunc(func) ==
  /\ LET r == remove_func(funcs, func) IN
       /\ funcs' = r.funcs
       /\ last' = [op |-> "remove_func", arg |-> func, ok |-> TRUE,
                  kind |-> IF r.ret.some THEN [tag |-> "FunctionData"] ELSE NoKind]
  /\ UNCHANGED <<next_func_id, returned_funcs>>
  /\ UNCHANGED <<values, next_value_id, returned, panicked>>
  /\ UNCHANGED <<useVars, typeVars, entityVars, restVars>>

\* ------------------------------------------------ core: Use and ValueInner
\* The Rc<Value>s and the addresses a Use box can have.
ValueRcs == 1..NumValues
UseBoxes == 1..MaxUses

\* The users a Use can belong to (Use.user, a ValueRef to an instruction).
UserRefs == {"inst_a", "inst_b"}

\* The instruction that makes the Use in box u: in the checked runs the two
\* instructions make their Uses in turn.
UserOf(u) == IF u % 2 = 1 THEN "inst_a" ELSE "inst_b"

\* Whether the Use's LinkedListLink is linked into some list.
IsLinked(lists, u) == \E v \in DOMAIN lists : \E i \in 1..Len(lists[v]) : lists[v][i] = u

InList(list, u) == \E i \in 1..Len(list) : list[i] = u

\* ValueInner::add_use on value v: LinkedList::push_back, which panics on a
\* Use that is already linked.
add_use(lists, v, u) ==
  IF IsLinked(lists, u)
  THEN [lists |-> lists, ok |-> FALSE]
  ELSE [lists |-> [lists EXCEPT ![v] = Append(@, u)], ok |-> TRUE]

\* remove_use that leaves the Use linked.
remove_use_unlinking_nothing(lists, v, u) == [lists |-> lists, defined |-> TRUE]

\* ValueInner::remove_use on value v: the cursor at u unlinks it; undefined
\* when u is not in v's list.
remove_use(lists, v, u) ==
  [lists |-> [lists EXCEPT ![v] = SelectSeq(@, LAMBDA x : x # u)],
   defined |-> InList(lists[v], u)]

\* The loop without u.value.set(value): the Use moves but still names self.
RECURSIVE ReplaceLoopValueNotSet(_, _, _, _)
ReplaceLoopValueNotSet(us, lists, self, value) ==
  IF lists[self] = <<>> THEN [boxes |-> us, lists |-> lists, ok |-> TRUE]
  ELSE LET u == Head(lists[self])
           popped == [lists EXCEPT ![self] = Tail(@)] IN
       IF value = None THEN ReplaceLoopValueNotSet(us, popped, self, value)
       ELSE LET a == add_use(popped, value, u) IN
            IF a.ok THEN ReplaceLoopValueNotSet(us, a.lists, self, value)
            ELSE [boxes |-> us, lists |-> popped, ok |-> FALSE]

\* The loop of replace_all_uses_with on self: pop the front Use, point it at
\* value, push it at the back of value's list (if value is Some).
RECURSIVE ReplaceLoop(_, _, _, _)
ReplaceLoop(us, lists, self, value) ==
  IF lists[self] = <<>> THEN [boxes |-> us, lists |-> lists, ok |-> TRUE]
  ELSE LET u == Head(lists[self])
           popped == [lists EXCEPT ![self] = Tail(@)]
           us1 == [us EXCEPT ![u].value = value] IN
       IF value = None THEN ReplaceLoop(us1, popped, self, value)
       ELSE LET a == add_use(popped, value, u) IN
            IF a.ok THEN ReplaceLoop(us1, a.lists, self, value)
            ELSE [boxes |-> us1, lists |-> popped, ok |-> FALSE]

\* replace_all_uses_with without its assertion: with value = Some(self) the
\* first round pops the front Use and then panics in v.inner_mut().
replace_all_uses_with_unasserted(us, lists, self, value) ==
  IF value = self /\ lists[self] # <<>>
  THEN [boxes |-> us, lists |-> [lists EXCEPT ![self] = Tail(@)], ok |-> FALSE]
  ELSE ReplaceLoop(us, lists, self, value)

\* ValueInner::replace_all_uses_with(&mut self, value). With value = Some(self)
\* the assertion's v.inner() borrows the RefCell the caller holds mutably and
\* the assertion itself is false: the call panics before the loop.
replace_all_uses_with(us, lists, self, value) ==
  IF value = self
  THEN [boxes |-> us, lists |-> lists, ok |-> FALSE]
  ELSE ReplaceLoop(us, lists, self, value)

\* old: the value the Use held before a set_value, None in other calls.
NoUseCall == [op |-> "none", use |-> None, self |-> None, value |-> None,
              old |-> None, ok |-> TRUE, moved |-> 0]

UseInit ==
  /\ use_boxes = << >>
  /\ uses = [v \in ValueRcs |-> <<>>]
  /\ last_use_call = NoUseCall
  /\ undefined = FALSE

\* Where Box::new puts the next Use: the boxes are interchangeable, the
\* lowest free address stands for any free one (a dropped box's is free again).
FreeBox(u) == u \notin DOMAIN use_boxes /\ \A w \in UseBoxes : w < u => w \in DOMAIN use_boxes

\* Use::new(value, user): a new box, linked into value's list if value is Some.
UseNew(u, value, user) ==
  /\ FreeBox(u)
  /\ LET a == IF value = None THEN [lists |-> uses, ok |-> TRUE]
               ELSE add_use(uses, value, u) IN
       /\ uses' = a.lists
       /\ use_boxes' = IF a.ok THEN MapInsert(use_boxes, u, [value |-> value, user |-> user])
                  ELSE use_boxes
       /\ last_use_call' = [op |-> "new", use |-> u, self |-> None, value |-> value,
                            old |-> None, ok |-> a.ok, moved |-> 0]
  /\ UNCHANGED <<undefined, progVars, funcVars, typeVars, entityVars, restVars>>

\* Use::set_value(&self, value).
UseSetValue(u, value) ==
  /\ u \in DOMAIN use_boxes
  /\ LET old_val == use_boxes[u].value
         r == IF old_val = None THEN [lists |-> uses, defined |-> TRUE]
              ELSE remove_use(uses, old_val, u)
         a == IF value = None THEN [lists |-> r.lists, ok |-> TRUE]
              ELSE add_use(r.lists, value, u) IN
       /\ use_boxes' = [use_boxes EXCEPT ![u].value = value]
       /\ uses' = a.lists
       /\ undefined' = (undefined \/ ~r.defined)
       /\ last_use_call' = [op |-> "set_value", use |-> u, self |-> None,
                            value |-> value, old |-> old_val, ok |-> a.ok, moved |-> 0]
  /\ UNCHANGED <<progVars, funcVars, typeVars, entityVars, restVars>>

\* Drop for Use.
UseDrop(u) ==
  /\ u \in DOMAIN use_boxes
  /\ LET v == use_boxes[u].value
         r == IF v = None THEN [lists |-> uses, defined |-> TRUE]
              ELSE remove_use(uses, v, u) IN
       /\ uses' = r.lists
       /\ undefined' = (undefined \/ ~r.defined)
  /\ use_boxes' = MapRemove(use_boxes, u)
  /\ last_use_call' = [op |-> "drop", use |-> u, self |-> None, value |-> None,
                       old |-> None, ok |-> TRUE, moved |-> 0]
  /\ UNCHANGED <<progVars, funcVars, typeVars, entityVars, restVars>>

\* A call self.inner_mut().replace_all_uses_with(value).
ReplaceAllUsesWith(self, value) ==
  /\ LET r == replace_all_uses_with(use_boxes, uses, self, value) IN
       /\ use_boxes' = r.boxes
       /\ uses' = r.lists
       /\ last_use_call' = [op |-> "replace_all_uses_with", use |-> None,
                            self |-> self, value |-> value, old |-> None, ok |-> r.ok,
                            moved |-> IF r.ok THEN Len(uses[self]) ELSE 0]
  /\ UNCHANGED <<undefined, progVars, funcVars, typeVars, entityVars, restVars>>

\* ---------------------------------------------------------- TypeFactory
\* The TypeData a caller can build from the Type handles H it holds.
TypeDataOver(H) ==
  {[tag |-> "Int32"]}
  \cup {[tag |-> "Array", base |-> b, len |-> n] : b \in H, n \in 1..MaxArrayLen}
  \cup {[tag |-> "Pointer", base |-> b] : b \in H}
  \cup {[tag |-> "Function", ret |-> r, args |-> a] :
          r \in H \cup {None}, a \in SeqsUpTo(H, MaxTypeArgs)}

\* impl PartialEq for Type: Rc::ptr_eq.
TypeEq(t1, t2) == t1 = t2

\* #[derive(PartialEq)] for TypeData: the same variant and equal fields, a
\* Type field compared with Type's own equality.
TypeDataEq(d1, d2) ==
  /\ d1.tag = d2.tag
  /\ CASE d1.tag = "Array" -> TypeEq(d1.base, d2.base) /\ d1.len = d2.len
       [] d1.tag = "Pointer" -> TypeEq(d1.base, d2.base)
       [] d1.tag = "Function" ->
            /\ (d1.ret = None) = (d2.ret = None)
            /\ (d1.ret # None => TypeEq(d1.ret, d2.ret))
            /\ Len(d1.args) = Len(d2.args)
            /\ \A i \in 1..Len(d1.args) : TypeEq(d1.args[i], d2.args[i])
       [] OTHER -> TRUE

\* HashMap::get(&type_data): the entry whose key equals the data, if any.
Lookup(tys, d) == {k \in DOMAIN tys : TypeDataEq(k, d)}

\* A get_type that never finds an entry.
get_type_uninterned(tys, hp, type_data) ==
  LET k == Cardinality(DOMAIN hp) + 1 IN
  [types |-> [x \in (DOMAIN tys \ Lookup(tys, type_data)) \cup {type_data} |->
                IF x = type_data THEN k ELSE tys[x]],
   heap |-> MapInsert(hp, k, type_data), ret |-> k, hit |-> FALSE]

\* TypeFactory::get_type: the Type of the entry found, or else a new
\* Rc<TypeData> (at an address no live Rc has) inserted under the data.
get_type(tys, hp, type_data) ==
  IF Lookup(tys, type_data) # {}
  THEN [types |-> tys, heap |-> hp,
        ret |-> tys[CHOOSE k \in Lookup(tys, type_data) : TRUE], hit |-> TRUE]
  ELSE LET k == Cardinality(DOMAIN hp) + 1 IN
       [types |-> MapInsert(tys, type_data, k),
        heap |-> MapInsert(hp, k, type_data), ret |-> k, hit |-> FALSE]

NoTypeCall == [data |-> [tag |-> "none"], ret |-> None, hit |-> FALSE]

TypeInit ==
  /\ types = << >>
  /\ heap = << >>
  /\ obtained = {}
  /\ last_type = NoTypeCall

\* A call of get_type (get_i32, get_array, get_pointer and get_function pass
\* their TypeData to it).
GetType(type_data) ==
  /\ Cardinality(DOMAIN heap) < MaxTypes \/ Lookup(types, type_data) # {}
  /\ LET r == get_type(types, heap, type_data) IN
       /\ types' = r.types
       /\ heap' = r.heap
       /\ obtained' = obtained \cup {[data |-> type_data, handle |-> r.ret]}
       /\ last_type' = [data |-> type_data, ret |-> r.ret, hit |-> r.hit]
  /\ UNCHANGED <<progVars, funcVars, useVars, entityVars, restVars>>

\* ---------------------------------------- FunctionData, BasicBlockData
\* TypeKind of the IR the entities are written against: Unit, Int32,
\* Array, Pointer, Function(params, ret), BasicBlock(params). Types are
\* interned, so a Type is given by its structure.
UnitType == [tag |-> "Unit"]
Int32Type == [tag |-> "Int32"]
PointerType(b) == [tag |-> "Pointer", base |-> b]
FunctionType(ps, r) == [tag |-> "Function", params |-> ps, ret |-> r]
BasicBlockType(ps) == [tag |-> "BasicBlock", params |-> ps]

\* Type::is_unit.
is_unit(ty) == ty.tag = "Unit"

\* The types a parameter list is made of, and the types given to constructors.
ParamTypes == {UnitType, Int32Type, PointerType(Int32Type)}

EntityTypes ==
  {Int32Type}
  \cup {FunctionType(ps, r) : ps \in SeqsUpTo(ParamTypes, MaxParams),
                              r \in {UnitType, Int32Type}}
  \cup {BasicBlockType(ps) : ps \in SeqsUpTo(ParamTypes, MaxParams)}

\* FunctionData::check_sanity: TRUE when neither assertion fires.
check_sanity(name, ty) ==
  /\ ValidName(name)
  /\ ty.tag = "Function"
  /\ \A i \in 1..Len(ty.params) : ~is_unit(ty.params[i])

Panicked(ctor) == [ctor |-> ctor, ok |-> FALSE, data |-> [tag |-> "none"]]

\* FunctionData::new; the DataFlowGraph it makes has no global value map yet.
FunctionData_new(name, params, ty) ==
  IF check_sanity(name, ty)
  THEN [ctor |-> "FunctionData::new", ok |-> TRUE,
        data |-> [ty |-> ty, name |-> name, params |-> params, globals |-> "none"]]
  ELSE Panicked("FunctionData::new")

\* FunctionData::new_decl.
FunctionData_new_decl(name, ty) ==
  IF check_sanity(name, ty)
  THEN [ctor |-> "FunctionData::new_decl", ok |-> TRUE,
        data |-> [ty |-> ty, name |-> name, params |-> <<>>, globals |-> "none"]]
  ELSE Panicked("FunctionData::new_decl")

\* BasicBlockData::new.
BasicBlockData_new(name) ==
  IF name.some => ValidName(name.s)
  THEN [ctor |-> "BasicBlockData::new", ok |-> TRUE,
        data |-> [ty |-> BasicBlockType(<<>>), name |-> name, params |-> <<>>,
                  used_by |-> {}]]
  ELSE Panicked("BasicBlockData::new")

\* BasicBlockData::with_params.
BasicBlockData_with_params(name, params, ty) ==
  IF ty.tag = "BasicBlock" /\ Len(ty.params) = Len(params)
  THEN [ctor |-> "BasicBlockData::with_params", ok |-> TRUE,
        data |-> [ty |-> ty, name |-> name, params |-> params, used_by |-> {}]]
  ELSE Panicked("BasicBlockData::with_params")

\* impl Default for BasicBlockData.
BasicBlockData_default ==
  [ctor |-> "BasicBlockData::default", ok |-> TRUE,
   data |-> [ty |-> BasicBlockType(<<>>), name |-> NoName, params |-> <<>>,
             used_by |-> {}]]

\* ValueData::ty of the values given as parameters: in the checked runs the
\* odd handles are i32 values and the even handles are pointers to i32.
value_ty(v) == IF v % 2 = 1 THEN Int32Type ELSE PointerType(Int32Type)

EntityInit == built = [ctor |-> "none", ok |-> TRUE, data |-> [tag |-> "none"]]

\* The Value handles a parameter list is made of.
ParamLists == SeqsUpTo(1..MaxValueId, MaxParams)

\* No constructor has been called yet. The constructors are pure: each checked
\* run makes one constructor call.
NotBuilt == built.ctor = "none"

NewFunctionData(name, params, ty) ==
  /\ built' = FunctionData_new(name, params, ty)
  /\ UNCHANGED <<progVars, funcVars, useVars, typeVars, restVars>>

NewFunctionDecl(name, ty) ==
  /\ built' = FunctionData_new_decl(name, ty)
  /\ UNCHANGED <<progVars, funcVars, useVars, typeVars, restVars>>

NewBasicBlockData(name) ==
  /\ built' = BasicBlockData_new(name)
  /\ UNCHANGED <<progVars, funcVars, useVars, typeVars, restVars>>

NewBasicBlockDataWithParams(name, params, ty) ==
  /\ built' = BasicBlockData_with_params(name, params, ty)
  /\ UNCHANGED <<progVars, funcVars, useVars, typeVars, restVars>>

DefaultBasicBlockData ==
  /\ built' = BasicBlockData_default
  /\ UNCHANGED <<progVars, funcVars, useVars, typeVars, restVars>>

\* ValueData::new(ty, kind).
NewValueData(kind) ==
  /\ built' = [ctor |-> "ValueData::new", ok |-> TRUE, data |-> ValueData_new(kind)]
  /\ UNCHANGED <<progVars, funcVars, useVars, typeVars, restVars>>

\* The last call made or renamed a ValueData.
IsValueData == built.ctor \in {"ValueData::new", "ValueData::set_name"}

\* ValueData::set_name(name) on the ValueData built.
SetValueName(name) ==
  /\ IsValueData
  /\ built' = [ctor |-> "ValueData::set_name", ok |-> TRUE,
               data |-> ValueData_set_name(built.data, name)]
  /\ UNCHANGED <<progVars, funcVars, useVars, typeVars, restVars>>

\* ------------------------------------------------- the ValueUses iterator
NoIter == [kind |-> [tag |-> "none"], index |-> 0]

IterInit ==
  /\ iter = NoIter
  /\ yielded = <<>>

\* kind.value_uses(): each checked run makes one iterator.
ValueUsesCall(kind) ==
  /\ iter = NoIter
  /\ iter' = ValueUses_new(kind)
  /\ yielded' = <<>>
  /\ UNCHANGED <<progVars, funcVars, useVars, typeVars, entityVars, kindVars, extVars>>

\* A call of next() on the iterator.
ValueUsesNextCall ==
  /\ iter # NoIter
  /\ Len(yielded) < MaxNextCalls
  /\ LET r == ValueUses_next(iter) IN
       /\ iter' = r.iter
       /\ yielded' = Append(yielded, r.item)
  /\ UNCHANGED <<progVars, funcVars, useVars, typeVars, entityVars, kindVars, extVars>>

\* ------------------------------------------------- core: classification
\* The variants of the core's ValueKind.
CoreKinds ==
  {"Integer", "ZeroInit", "Undef", "Aggregate", "ArgRef", "Alloc", "GlobalAlloc",
   "Load", "Store", "GetPtr", "GetElemPtr", "Binary", "Unary", "Branch", "Jump",
   "Call", "Return", "Phi"}

\* The types given to Value::new in the checked runs.
CoreTypes == {"i32", "*i32", "[i32, 2]"}

\* Value::is_inst without ArgRef in its list.
is_inst_argref_forgotten(kind) == kind \notin {"Integer", "ZeroInit", "Undef", "Aggregate"}

\* Value::is_const and Value::is_inst on a Value of the given kind.
is_const(kind) == kind \in {"Integer", "ZeroInit", "Undef", "Aggregate"}

is_inst(kind) == kind \notin {"Integer", "ZeroInit", "Undef", "Aggregate", "ArgRef"}

\* answers: the questions asked of the Value so far, each with its answer.
KindInit == core_value = [ty |-> "none", kind |-> "none", answers |-> {}]

\* Value::new(ty, kind).
ValueNew(ty, kind) ==
  /\ core_value' = [ty |-> ty, kind |-> kind, answers |-> {}]
  /\ UNCHANGED <<progVars, funcVars, useVars, typeVars, entityVars, iterVars, extVars>>

\* value.is_const() and value.is_inst() on the Value made; the answer is kept.
IsConst ==
  /\ core_value.kind # "none"
  /\ core_value' = [core_value EXCEPT
                      !.answers = @ \cup {<<"is_const", is_const(core_value.kind)>>}]
  /\ UNCHANGED <<progVars, funcVars, useVars, typeVars, entityVars, iterVars, extVars>>

IsInst ==
  /\ core_value.kind # "none"
  /\ core_value' = [core_value EXCEPT
                      !.answers = @ \cup {<<"is_inst", is_inst(core_value.kind)>>}]
  /\ UNCHANGED <<progVars, funcVars, useVars, typeVars, entityVars, iterVars, extVars>>

\* ------------------------------------------- interpreter: ExternFuncs
\* The last arm of `match args.len()` in call_ext_func that calls the symbol.
ArityCap == 28

\* A usize, as the sign extension (hi: 0 or -1) of its low 32 bits read as an
\* i32 (lo); the addresses of the checked runs are below 2^31.
Word(hi, lo) == [hi |-> hi, lo |-> lo]
ZeroWord == Word(0, 0)

\* Val: Undef, Int(i32), Array at an address, Pointer with Some(address) or
\* None, UnsafePointer with Some(address) or None.
ValUndef == [tag |-> "Undef"]
ValInt(i) == [tag |-> "Int", i |-> i]
ValArray(a) == [tag |-> "Array", addr |-> a]
ValPointer(p) == [tag |-> "Pointer", ptr |-> p]
ValUnsafePointer(p) == [tag |-> "UnsafePointer", ptr |-> p]

\* ExternFuncs::val_to_usize; `*i as usize` sign-extends the i32.
val_to_usize(val) ==
  CASE val.tag = "Undef" -> ZeroWord
    [] val.tag = "Int" -> Word(IF val.i < 0 THEN -1 ELSE 0, val.i)
    [] val.tag = "Array" -> Word(0, val.addr)
    [] val.tag = "Pointer" -> (IF val.ptr = None THEN ZeroWord ELSE Word(0, val.ptr))
    [] val.tag = "UnsafePointer" -> (IF val.ptr = None THEN ZeroWord ELSE Word(0, val.ptr))

\* ExternFuncs::usize_to_val: `u as i32` keeps the low 32 bits, NonNull::new
\* gives None for the null address; any other return type panics.
usize_to_val(u, ty) ==
  CASE ty.tag = "Int32" -> [ok |-> TRUE, val |-> ValInt(u.lo)]
    [] ty.tag = "Unit" -> [ok |-> TRUE, val |-> ValUndef]
    [] ty.tag \in {"Array", "Pointer"} ->
         [ok |-> TRUE, val |-> ValUnsafePointer(IF u = ZeroWord THEN None ELSE u.lo)]
    [] OTHER -> [ok |-> FALSE, val |-> ValUndef]

\* The outcome of a call: "ok" with a Val, "err" with the message of the
\* io::Error, or "panic"; invoked and words tell whether the foreign symbol was
\* called and with which machine words.
Outcome(res, msg, inv, ws, val) ==
  [result |-> res, error |-> msg, invoked |-> inv, words |-> ws, val |-> val]

NotInvoked(res, msg) == Outcome(res, msg, FALSE, <<>>, ValUndef)

\* call_ext_func with no limit on the number of arguments.
call_ext_func_uncapped(args, ret_ty, foreign_ret) ==
  LET ws == [i \in 1..Len(args) |-> val_to_usize(args[i])]
      r == usize_to_val(foreign_ret, ret_ty) IN
  IF r.ok THEN Outcome("ok", "", TRUE, ws, r.val)
  ELSE Outcome("panic", "unsupported value type", TRUE, ws, ValUndef)

\* ExternFuncs::call_ext_func on a resolved symbol that returns foreign_ret:
\* the arm for args.len() passes val_to_usize of each argument, in order.
call_ext_func(args, ret_ty, foreign_ret) ==
  IF Len(args) <= ArityCap
  THEN LET ws == [i \in 1..Len(args) |-> val_to_usize(args[i])]
           r == usize_to_val(foreign_ret, ret_ty) IN
       IF r.ok THEN Outcome("ok", "", TRUE, ws, r.val)
       ELSE Outcome("panic", "unsupported value type", TRUE, ws, ValUndef)
  ELSE NotInvoked("err", "argument number exceeded in external function call")

\* The symbols of the libraries loaded, in the order of self.libs.
Libs == <<{<<"g">>}, {<<"f">>, <<"g">>}>>

\* ExternFuncs::call(func, args), the resolved symbol returning foreign_ret.
ExternFuncs_call(func, args, foreign_ret) ==
  IF ~func.is_decl THEN NotInvoked("panic", "expected function declaration")
  ELSE IF func.name = <<>> THEN NotInvoked("panic", "invalid function name")
  ELSE IF func.ty.tag # "Function" THEN NotInvoked("panic", "invalid function")
  ELSE IF \E i \in 1..Len(Tail(func.name)) : Tail(func.name)[i] = "NUL"
  THEN NotInvoked("err", "nul byte found in provided data")
  ELSE IF \A l \in 1..Len(Libs) : Tail(func.name) \notin Libs[l]
  THEN NotInvoked("err", "external function not found")
  ELSE call_ext_func(args, func.ty.ret, foreign_ret)

NoExtCall == [func |-> [name |-> <<>>, is_decl |-> FALSE, ty |-> [tag |-> "none"]],
              args |-> <<>>, out |-> NotInvoked("none", "")]

ExtInit == ext_call = NoExtCall

\* The functions, argument vectors and foreign results of the checked runs.
ExtFuncs ==
  {[name |-> n, is_decl |-> d, ty |-> t] :
     n \in {<<"@", "f">>, <<"@", "h">>},
     d \in BOOLEAN,
     t \in {[tag |-> "Int32"]}
            \cup {[tag |-> "Function", ret |-> [tag |-> r]] :
                    r \in {"Int32", "Unit", "Pointer", "Function"}}}
  \cup {[name |-> n, is_decl |-> TRUE, ty |-> [tag |-> "Function", ret |-> [tag |-> "Unit"]]] :
          n \in {<<>>, <<"@", "NUL">>}}

\* The i-th argument of a vector: integers of both signs that tell the
\* positions apart, or the shapes of Val in turn.
ArgAt(pattern, i) ==
  IF pattern = "ints" THEN ValInt(IF i % 2 = 0 THEN i ELSE 0 - i)
  ELSE CASE i % 6 = 0 -> ValUndef
         [] i % 6 = 1 -> ValArray(100 + i)
         [] i % 6 = 2 -> ValPointer(200 + i)
         [] i % 6 = 3 -> ValPointer(None)
         [] i % 6 = 4 -> ValUnsafePointer(300 + i)
         [] OTHER -> ValUnsafePointer(None)

ArgVectors == {[i \in 1..n |-> ArgAt(p, i)] : n \in 0..MaxCallArgs, p \in {"ints", "vals"}}

ForeignRets == {ZeroWord, Word(0, 7), Word(-1, -1)}

\* A call of ExternFuncs::call; the calls do not change the ExternFuncs, each
\* checked run makes one.
ExternCall(func, args, foreign_ret) ==
  /\ ext_call' = [func |-> func, args |-> args,
                  out |-> ExternFuncs_call(func, args, foreign_ret)]
  /\ UNCHANGED <<progVars, funcVars, useVars, typeVars, entityVars, iterVars, kindVars>>

\* ------------------------------------------------------- specifications
Init ==
  /\ ProgInit /\ FuncInit /\ UseInit /\ TypeInit /\ EntityInit
  /\ IterInit /\ KindInit /\ ExtInit

\* The Program and its global values.
Next ==
  \/ \E k \in GlobalKinds(returned) : NewValue(ValueData_new(k))
  \/ \E v \in returned : RemoveValue(v)

Spec == Init /\ [][Next]_vars

\* The use lists of the core.
NextUses ==
  \/ \E u \in UseBoxes, value \in ValueRcs \cup {None} : UseNew(u, value, UserOf(u))
  \/ \E u \in UseBoxes, value \in ValueRcs \cup {None} : UseSetValue(u, value)
  \/ \E u \in UseBoxes : UseDrop(u)
  \/ \E self \in ValueRcs, value \in ValueRcs \cup {None} :
        ReplaceAllUsesWith(self, value)

SpecUses == Init /\ [][NextUses]_vars

\* The type factory.
NextTypes == \E d \in TypeDataOver(DOMAIN heap) : GetType(d)

SpecTypes == Init /\ [][NextTypes]_vars

\* The constructors of FunctionData and BasicBlockData.
NextEntities ==
  \/ NotBuilt /\ \E n \in Names, ps \in ParamLists, ty \in EntityTypes :
                    NewFunctionData(n, ps, ty)
  \/ NotBuilt /\ \E n \in Names, ty \in EntityTypes : NewFunctionDecl(n, ty)
  \/ NotBuilt /\ \E n \in OptionNames : NewBasicBlockData(n)
  \/ NotBuilt /\ \E n \in OptionNames, ps \in ParamLists, ty \in EntityTypes :
                    NewBasicBlockDataWithParams(n, ps, ty)
  \/ NotBuilt /\ DefaultBasicBlockData
  \/ NotBuilt /\ \E k \in KindsOver({}) : NewValueData(k)
  \/ \E n \in OptionNames : SetValueName(n)

SpecEntities == Init /\ [][NextEntities]_vars

\* The Program with its functions. The function data given to new_func are
\* declarations; the global values are integers and global allocations.
FuncDatas ==
  {FunctionData_new_decl(n, FunctionType(<<>>, Int32Type)).data :
     n \in {<<"@", "f">>, <<"%", "x">>}}

FuncSpecKinds(H) ==
  {[tag |-> "Integer"]} \cup {[tag |-> "GlobalAlloc", init |-> i] : i \in H}

NextFuncs ==
  \/ \E k \in FuncSpecKinds(returned) : NewValue(ValueData_new(k))
  \/ \E v \in returned : RemoveValue(v)
  \/ \E d \in FuncDatas : NewFunc(d)
  \/ \E f \in returned_funcs : RemoveFunc(f)

SpecFuncs == Init /\ [][NextFuncs]_vars

\* The ValueUses iterator over the kinds with operands among 1..MaxOperand.
NextValueUses ==
  \/ \E k \in KindsOver(1..MaxOperand) : ValueUsesCall(k)
  \/ ValueUsesNextCall

SpecValueUses == Init /\ [][NextValueUses]_vars

\* The classification of the core's Values.
NextKinds ==
  \/ \E ty \in CoreTypes, k \in CoreKinds : ValueNew(ty, k)
  \/ IsConst
  \/ IsInst

SpecKinds == Init /\ [][NextKinds]_vars

\* The foreign calls of the interpreter.
NextExtern ==
  ext_call = NoExtCall /\
    \E func \in ExtFuncs, args \in ArgVectors, foreign_ret \in ForeignRets :
      ExternCall(func, args, foreign_ret)

SpecExtern == Init /\ [][NextExtern]_vars

\* ------------------------------------------------- claims on the Program
\* The users of v: the values in the map with v in an operand slot.
Users(vals, v) == {w \in DOMAIN vals : v \in Operands(vals[w].kind)}

UseSymmetry ==
  /\ \A v \in DOMAIN values : \A u \in Operands(values[v].kind) :
        u \in DOMAIN values /\ v \in values[u].used_by
  /\ \A u \in DOMAIN values : \A v \in values[u].used_by :
        v \in DOMAIN values /\ u \in Operands(values[v].kind)

\* C1: as long as every new_value and remove_value call so far has returned,
\* each global value is in the used_by of each of its operands, and each member
\* of a used_by set is a value of the map with that value in an operand slot.
C1_UseSymmetry == ~panicked => UseSymmetry

\* No call has panicked, a value has been removed and a value constructed
\* after that is the one user of a value older than both.
C1_Witness ==
  /\ ~panicked
  /\ \E u \in DOMAIN values, gone \in returned \ DOMAIN values :
        /\ u < gone
        /\ \E v \in DOMAIN values : v > gone /\ values[u].used_by = {v}

\* C2: a remove_value(v) call fails when v.used_by is non-empty, succeeds when
\* v is in the map and none of its users is left, and no value leaves the map
\* while its used_by is non-empty.
C2_RemovalGuard ==
  [][ /\ \A v \in returned :
          (last'.op = "remove_value" /\ last'.arg = v /\ v \in DOMAIN values) =>
            /\ values[v].used_by # {} => ~last'.ok
            /\ Users(values, v) = {} => last'.ok
      /\ \A v \in DOMAIN values :
          v \notin DOMAIN values' => values[v].used_by = {} ]_vars

\* C3: a remove_value(v) call that fails because v.used_by is non-empty leaves
\* the global value map, v's entry and every used_by set as they were.
C3_FailedRemovalLeaksNothing ==
  [][ \A v \in returned :
        ( /\ last'.op = "remove_value" /\ last'.arg = v
          /\ v \in DOMAIN values /\ values[v].used_by # {} ) =>
        (~last'.ok /\ values' = values) ]_vars

\* C4: a new_value(data) call that fails because an operand of data is not in
\* the map changes no used_by set and adds no entry, wherever the missing
\* operand stands among the operands.
C4_FailedConstructionAtomic ==
  [][ (last'.op = "new_value" /\ ~last'.ok) => values' = values ]_vars

\* C5: in every reachable state, for every data whose operands all exist,
\* new_value(data) followed at once by remove_value of the returned handle
\* returns both times, gives the data back and leaves the map, with every
\* used_by set, as it was before the construction.
C5_RemoveUndoRoundTrip ==
  \A k \in GlobalKinds(DOMAIN values) :
    LET data == ValueData_new(k)
        s1 == new_value(values, next_value_id, data)
        s2 == remove_value(s1.values, s1.ret)
    IN  s1.ok /\ s2.ok /\ s2.ret = data /\ s2.values = values

\* The value minted last, with one operand in both of its slots, has been
\* removed again and its operand is left with no user.
C5_Witness ==
  /\ last.op = "remove_value" /\ last.ok /\ last.arg = next_value_id - 1
  /\ last.kind.tag = "Binary" /\ last.kind.lhs = last.kind.rhs
  /\ last.kind.lhs \in DOMAIN values /\ values[last.kind.lhs].used_by = {}

\* --------------------------------------------- claims on the use lists
\* The last call replaced all uses of a value by the value itself.
SelfReplace(c) == c.op = "replace_all_uses_with" /\ c.value = c.self

\* C6 as stated: replacing all uses of a value a with a itself completes and
\* leaves a's use list, and every Use, unchanged.
C6_SelfReplaceIsNoOp ==
  [][ SelfReplace(last_use_call') =>
        (last_use_call'.ok /\ uses' = uses /\ use_boxes' = use_boxes) ]_vars

\* C6 amended: replacing all uses of a value a with a itself is rejected by a
\* panic before anything is modified; a's use list and every Use are unchanged.
C6_SelfReplaceRejected ==
  [][ SelfReplace(last_use_call') =>
        (~last_use_call'.ok /\ uses' = uses /\ use_boxes' = use_boxes) ]_vars

\* A self-replacement was attempted on a value that has two uses.
C6_Witness ==
  /\ SelfReplace(last_use_call)
  /\ Len(uses[last_use_call.self]) = 2

\* C7: after replace_all_uses_with(new) on old, with new another value, the
\* call returns, old's list is empty, every Use that held old holds new and is
\* in new's list, the uses new had are still in its list (in front, in their
\* order, followed by old's in theirs), and no Use changed its user.
C7_ReplaceAllUsesPost ==
  [][ \A old \in ValueRcs, new \in ValueRcs :
        ( /\ last_use_call'.op = "replace_all_uses_with"
          /\ last_use_call'.self = old /\ last_use_call'.value = new
          /\ old # new ) =>
        /\ last_use_call'.ok
        /\ uses'[old] = <<>>
        /\ \A u \in DOMAIN use_boxes :
              use_boxes[u].value = old =>
                use_boxes'[u].value = new /\ InList(uses'[new], u)
        /\ \A u \in DOMAIN use_boxes : InList(uses[new], u) => InList(uses'[new], u)
        /\ uses'[new] = uses[new] \o uses[old]
        /\ DOMAIN use_boxes' = DOMAIN use_boxes
        /\ \A u \in DOMAIN use_boxes : use_boxes'[u].user = use_boxes[u].user ]_vars

\* Two uses have just been moved to a value that already had one of its own.
C7_Witness ==
  /\ last_use_call.op = "replace_all_uses_with" /\ last_use_call.ok
  /\ last_use_call.value \in ValueRcs \ {last_use_call.self}
  /\ last_use_call.moved = 2
  /\ Len(uses[last_use_call.value]) = 3
  /\ \A u \in DOMAIN use_boxes : use_boxes[u].value = last_use_call.value

\* ----------------------------------------------- claims on the factory
\* Structural equality of two TypeData, the Types in them compared by what
\* they point to.
RECURSIVE StructEq(_, _)
StructEq(d1, d2) ==
  /\ d1.tag = d2.tag
  /\ CASE d1.tag = "Array" -> d1.len = d2.len /\ StructEq(heap[d1.base], heap[d2.base])
       [] d1.tag = "Pointer" -> StructEq(heap[d1.base], heap[d2.base])
       [] d1.tag = "Function" ->
            /\ (d1.ret = None) = (d2.ret = None)
            /\ (d1.ret # None => StructEq(heap[d1.ret], heap[d2.ret]))
            /\ Len(d1.args) = Len(d2.args)
            /\ \A i \in 1..Len(d1.args) : StructEq(heap[d1.args[i]], heap[d2.args[i]])
       [] OTHER -> TRUE

\* C8: of the handles get_type has returned so far, two are equal (the same
\* pointer) exactly when the TypeData they were asked for are structurally
\* equal, each handle points to data structurally equal to what was asked for,
\* and so a later call with equal data returns the handle of the first.
C8_InterningIdentity ==
  /\ \A p \in obtained : StructEq(heap[p.handle], p.data)
  /\ \A p, q \in obtained : TypeEq(p.handle, q.handle) <=> StructEq(p.data, q.data)

\* The factory holds three types, one inside the next, and the last call
\* found its array type in the map.
C8_Witness ==
  /\ Cardinality(DOMAIN heap) = 3
  /\ last_type.hit /\ last_type.data.tag = "Array"
  /\ \E p \in obtained : p.data.tag = "Pointer" /\ p.data.base = last_type.ret

\* ---------------------------------------------- claims on the entities
FunctionCtors == {"FunctionData::new", "FunctionData::new_decl"}

\* C9: every FunctionData that FunctionData::new or FunctionData::new_decl
\* returns has as many params as its function type has parameter types.
C9_FunctionArity ==
  (built.ok /\ built.ctor \in FunctionCtors) =>
    Len(built.data.params) = Len(built.data.ty.params)

\* C10: no FunctionData and no BasicBlockData of with_params is constructed
\* with Unit among the parameter types of its type: such a call fails.
C10_UnitExclusion ==
  (built.ok /\ built.ctor \in FunctionCtors \cup {"BasicBlockData::with_params"}) =>
    \A i \in 1..Len(built.data.ty.params) : ~is_unit(built.data.ty.params[i])

BlockCtors ==
  {"BasicBlockData::new", "BasicBlockData::default", "BasicBlockData::with_params"}

\* C11: every BasicBlockData that BasicBlockData::new, ::default or
\* ::with_params returns has a BasicBlock type whose parameter types are, position
\* by position, the types of its params values.
C11_BlockParamTypes ==
  (built.ok /\ built.ctor \in BlockCtors) =>
    /\ built.data.ty.tag = "BasicBlock"
    /\ Len(built.data.ty.params) = Len(built.data.params)
    /\ \A i \in 1..Len(built.data.params) :
          built.data.ty.params[i] = value_ty(built.data.params[i])

\* The name an entity built or renamed by the last call carries, if any.
StoredNames ==
  IF ~built.ok \/ built.ctor = "none" THEN {}
  ELSE IF built.ctor \in FunctionCtors THEN {built.data.name}
  ELSE IF built.data.name.some THEN {built.data.name.s} ELSE {}

\* C12: every name stored on a function, a basic block or a value has length
\* > 1 and begins with '%' or '@': a constructor or a rename given an invalid
\* name fails and stores nothing.
C12_NameValidity == \A n \in StoredNames : ValidName(n)

\* ------------------------------------- claims on the Program's handles
\* C14: the handle a new_value call returns is none of the value handles
\* returned before it, and the handle a new_func call returns none of the
\* function handles returned before it, removed entities' handles included.
C14_HandlesNeverReused ==
  [][ /\ (last'.op = "new_value" /\ last'.ok) =>
            \E h \in returned' : h \notin returned /\ h \in DOMAIN values'
      /\ last'.op = "new_func" =>
            \E h \in returned_funcs' : h \notin returned_funcs /\ h \in DOMAIN funcs' ]_vars

\* A value and a function have been removed, and the last call made a new
\* function while a value made after the removal is in the map.
C14_Witness ==
  /\ last.op = "new_func"
  /\ returned_funcs \ DOMAIN funcs # {}
  /\ \E gone \in returned \ DOMAIN values : \E v \in DOMAIN values : v > gone

SlotsOf(kind, listed_only) ==
  CASE kind.tag = "Branch" -> <<kind.cond>> \o kind.true_args \o kind.false_args
    [] kind.tag = "Store" -> <<kind.value, kind.dest>>
    [] kind.tag \in {"GetPtr", "GetElemPtr"} -> <<kind.src, kind.index>>
    [] kind.tag = "Binary" -> <<kind.lhs, kind.rhs>>
    [] kind.tag \in {"Jump", "Call"} -> kind.args
    [] kind.tag = "Aggregate" -> kind.elems
    [] kind.tag = "Return" -> (IF kind.value = None THEN <<>> ELSE <<kind.value>>)
    [] kind.tag = "Load" /\ ~listed_only -> <<kind.src>>
    [] kind.tag = "GlobalAlloc" /\ ~listed_only -> <<kind.init>>
    [] OTHER -> <<>>

\* The calls of next() so far have returned the slots in order, each once,
\* and None from then on.
YieldsExactly(slots) ==
  \A i \in 1..Len(yielded) :
    yielded[i] = IF i <= Len(slots) THEN slots[i] ELSE None

\* C13 as stated: value_uses yields, in order and once each, cond, true_args,
\* false_args of a Branch; value, dest of a Store; src, index of a GetPtr or
\* GetElemPtr; lhs, rhs of a Binary; the elements of a Jump, Call or Aggregate;
\* the value of a Return if present; nothing for any other kind; and nothing
\* more once exhausted.
C13_ValueUsesAsListed == iter # NoIter => YieldsExactly(SlotsOf(iter.kind, TRUE))

\* C13 amended: as stated, and besides a Load yields its src and a
\* GlobalAlloc its init; the kinds that yield nothing are Integer, ZeroInit,
\* Undef, FuncArgRef, BlockArgRef and Alloc.
C13_ValueUsesOrder == iter # NoIter => YieldsExactly(SlotsOf(iter.kind, FALSE))

\* next() has been called MaxNextCalls times on the iterator of a Branch with
\* two different true arguments and two different false arguments.
C13_Witness ==
  /\ iter.kind.tag = "Branch"
  /\ Len(iter.kind.true_args) = 2 /\ iter.kind.true_args[1] # iter.kind.true_args[2]
  /\ Len(iter.kind.false_args) = 2 /\ iter.kind.false_args[1] # iter.kind.false_args[2]
  /\ iter.kind.true_args # iter.kind.false_args
  /\ Len(yielded) = MaxNextCalls /\ yielded[MaxNextCalls] = None

\* ------------------------------------------- claims on the foreign calls
\* The call was given a named function declaration of a function type.
WellFormedCall ==
  /\ ext_call # NoExtCall
  /\ ext_call.func.is_decl /\ ext_call.func.name # <<>>
  /\ ext_call.func.ty.tag = "Function"

\* The symbol of the call is in one of the libraries.
Resolved ==
  /\ WellFormedCall
  /\ \E l \in 1..Len(Libs) : Tail(ext_call.func.name) \in Libs[l]

\* The machine word the interface gives for a Val: integers sign-extended,
\* arrays and pointers as their address, Undef and null pointers as zero.
WordOf(val) ==
  IF val.tag = "Int" THEN Word(IF val.i < 0 THEN -1 ELSE 0, val.i)
  ELSE IF val.tag = "Array" THEN Word(0, val.addr)
  ELSE IF val.tag = "Undef" \/ val.ptr = None THEN ZeroWord
  ELSE Word(0, val.ptr)

ArityExceeded ==
  /\ ext_call.out.result = "err"
  /\ ext_call.out.error = "argument number exceeded in external function call"
  /\ ~ext_call.out.invoked

PassedInOrder ==
  /\ ext_call.out.invoked
  /\ Len(ext_call.out.words) = Len(ext_call.args)
  /\ \A i \in 1..Len(ext_call.args) : ext_call.out.words[i] = WordOf(ext_call.args[i])

\* C16 as stated: a call with more than 28 arguments reports "argument number
\* exceeded" as an error and does not invoke the symbol; a call with 0 to 28
\* arguments passes that many machine words, in order.
C16_ArityCapAnyCall ==
  WellFormedCall =>
    IF Len(ext_call.args) > 28 THEN ArityExceeded
    ELSE Resolved => PassedInOrder

\* C16 amended: a call with more than 28 arguments never invokes the foreign
\* symbol and reports an error: "argument number exceeded" when its symbol
\* resolves, the failure of the resolution when it does not; a resolved call
\* with 0 to 28 arguments passes that many machine words, in order.
C16_ArityCap ==
  WellFormedCall =>
    IF Len(ext_call.args) > 28
    THEN /\ ~ext_call.out.invoked /\ ext_call.out.result = "err"
         /\ Resolved => ArityExceeded
    ELSE Resolved => PassedInOrder

\* A resolved call with 29 arguments has been made.
C16_Witness ==
  /\ Resolved
  /\ Len(ext_call.args) = 29
  /\ ext_call.out.result = "err"

\* -------------------------------------- claims on the classification
\* C17: is_const answers TRUE exactly for Integer, ZeroInit, Undef and
\* Aggregate; is_inst answers TRUE exactly for the kinds that are neither one
\* of these nor an argument reference; the two never both answer TRUE.
C17_Classification ==
  LET constant == core_value.kind \in {"Integer", "ZeroInit", "Undef", "Aggregate"}
      argument == core_value.kind = "ArgRef" IN
  /\ \A a \in core_value.answers :
        /\ a[1] = "is_const" => (a[2] <=> constant)
        /\ a[1] = "is_inst" => (a[2] <=> (~constant /\ ~argument))
  /\ ~({<<"is_const", TRUE>>, <<"is_inst", TRUE>>} \subseteq core_value.answers)

\* An argument reference has been asked both questions.
C17_Witness ==
  /\ core_value.kind = "ArgRef"
  /\ core_value.answers = {<<"is_const", FALSE>>, <<"is_inst", FALSE>>}

\* ------------------------------------ more claims on the Program, use lists
\* C18: as long as every new_value and remove_value call so far has returned,
\* every operand of every value in the global map is in the map, and removing
\* any value that has no users returns (its backlink loop meets no missing
\* operand).
C18_NoDanglingOperands ==
  ~panicked =>
    \A v \in DOMAIN values :
      /\ \A i \in 1..Len(value_uses(values[v].kind)) :
            value_uses(values[v].kind)[i] \in DOMAIN values
      /\ values[v].used_by = {} => remove_value(values, v).ok

\* No call has panicked, a value has been removed, and a value made after
\* that has two operands in the map while another value has no users.
C18_Witness ==
  /\ ~panicked
  /\ returned \ DOMAIN values # {}
  /\ \E v \in DOMAIN values :
        /\ values[v].kind.tag = "Binary" /\ values[v].used_by = {}
        /\ \E gone \in returned \ DOMAIN values : gone < v

\* How often the Use u stands in the list.
Occurrences(list, u) == Cardinality({i \in 1..Len(list) : list[i] = u})

\* C19: a live Use is in the use list of v exactly when it holds v, it stands
\* there once and in no other list, a Use that holds no value and a dropped Use
\* are in no list, and remove_use was never given a Use that is not in the list.
C19_UseListConsistency ==
  /\ ~undefined
  /\ \A u \in DOMAIN use_boxes : \A v \in ValueRcs :
        Occurrences(uses[v], u) = IF use_boxes[u].value = v THEN 1 ELSE 0
  /\ \A u \in UseBoxes \ DOMAIN use_boxes : ~IsLinked(uses, u)

\* A Use has just been given the value it already held, which has another
\* Use behind which it now stands, and an earlier Use has been dropped.
C19_Witness ==
  /\ last_use_call.op = "set_value" /\ last_use_call.ok
  /\ last_use_call.value \in ValueRcs /\ last_use_call.old = last_use_call.value
  /\ Len(uses[last_use_call.value]) = 2
  /\ uses[last_use_call.value][2] = last_use_call.use
  /\ uses[last_use_call.value][1] > last_use_call.use
  /\ UseBoxes \ DOMAIN use_boxes # {}

====
